---- MODULE Spec2Model ----
(***************************************************************************)
(* Model of drivers/input/touchscreen/fts_521/fts_lib/ftsGesture.c: the    *)
(* gesture mask store (updateGestureMask), the mask synchronizer           *)
(* (enableGesture, disableGesture), the mode controller (enterGestureMode) *)
(* and the coordinate decoder (readGestureCoords, getGestureCoords).       *)
(*                                                                         *)
(* Four specifications share the variables:                                *)
(*   Spec       threads calling the mask API next to one enterGestureMode  *)
(*   SpecFair   one thread calling enableGesture / disableGesture next to  *)
(*              enterGestureMode, under fair scheduling                    *)
(*   SpecUpd    one thread, updateGestureMask applied to drawn inputs      *)
(*   SpecCoords the event handler decoding reports next to a reader        *)
(***************************************************************************)
EXTENDS Integers, Sequences, FiniteSets, TLC

(***************************************************************************)
(* Program constants.  ftsGesture.h, ftsError.h and ftsSoftware.h are not  *)
(* part of the excerpt; the values are those of the fts_521 driver.        *)
(***************************************************************************)
GESTURE_MASK_SIZE == 4
GESTURE_MAX_COORDS_PAIRS_REPORT == 100
OK == 0
ERROR_OP_NOT_ALLOW == -2147483642
ERROR_DISABLE_INTER == -2147483136
ERROR_ENABLE_INTER == -2147482880
FEAT_ENABLE == 1
FEAT_DISABLE == 0
EVT_ID_USER_REPORT == 83
EVT_TYPE_USER_GESTURE == 2
SizeofInt == 4

(***************************************************************************)
(* Fixed-width arithmetic: u8 bytes and 32-bit two's complement int.       *)
(***************************************************************************)
RECURSIVE BitOp(_, _, _, _)
BitOp(op, a, b, n) ==
    IF n = 0 THEN 0
    ELSE LET x == a % 2
             y == b % 2
             z == CASE op = "or"  -> IF x + y > 0 THEN 1 ELSE 0
                    [] op = "xor" -> (x + y) % 2
                    [] op = "and" -> x * y
         IN  z + 2 * BitOp(op, a \div 2, b \div 2, n - 1)

U8Or(a, b)  == BitOp("or", a, b, 8)
U8Xor(a, b) == BitOp("xor", a, b, 8)
U8And(a, b) == BitOp("and", a, b, 8)

\* int | int on 32-bit two's complement: \div and % floor, so the low 31 bits of a
\* negative value are its two's complement bits; bit 31 is the sign.  The low 31
\* bits are OR-ed byte by byte.
IntOr(a, b) ==
    LET byte(x, j) == (x \div (256 ^ j)) % 256
        lo == U8Or(byte(a, 0), byte(b, 0))
                + 256 * U8Or(byte(a, 1), byte(b, 1))
                + 65536 * U8Or(byte(a, 2), byte(b, 2))
                + 16777216 * U8Or(byte(a, 3) % 128, byte(b, 3) % 128)
    IN  IF a < 0 \/ b < 0 THEN (lo - 2147483647) - 1 ELSE lo

(***************************************************************************)
(* Inputs of the model.                                                    *)
(***************************************************************************)
NULL == <<>>
Free == "free"
Updaters == {"t1", "t2"}
\* masks a caller passes: a pointer to at least GESTURE_MASK_SIZE bytes
Deltas == { <<1, 0, 0, 128>> }
Sizes == {0, 1, GESTURE_MASK_SIZE, GESTURE_MASK_SIZE + 1}
\* (mask, size) of enableGesture / disableGesture; a NULL mask comes with size 0
PushArgs == (Deltas \X Sizes) \cup {<<NULL, 0>>, <<NULL, GESTURE_MASK_SIZE + 1>>}
\* (mask, size, en) of updateGestureMask
UpdateArgs == ((Deltas \cup {NULL}) \X Sizes \X {FEAT_ENABLE, FEAT_DISABLE})
                 \cup (Deltas \X {1} \X {FEAT_ENABLE + 1})
ReloadArgs == {0, 1}
\* what the external primitives return: OK or a negative error code
ERROR_BUS_W == ERROR_OP_NOT_ALLOW - 3
ERROR_TIMEOUT == ERROR_OP_NOT_ALLOW + 1
IrqResults == {OK, ERROR_OP_NOT_ALLOW}    \* fts_disableInterruptNoSync, fts_enableInterrupt
FeatureResults == {OK, ERROR_BUS_W}       \* setFeatures
ScanResults == {OK, ERROR_TIMEOUT}        \* setScanMode
NotCalled == OK + 1

ZeroMask == [i \in 1..GESTURE_MASK_SIZE |-> 0]

VARIABLES
    gesture_mask,            \* static u8 gesture_mask[GESTURE_MASK_SIZE]
    refreshGestureMask,      \* static u8 refreshGestureMask
    gestureMask_mutex,       \* struct mutex gestureMask_mutex: Free or its owner
    fw,                      \* firmware: payload and result of the last setFeatures call
    irqEnabled,              \* interrupt line state
    upd,                     \* per thread: position in the mask API
    apiRet,                  \* the value the mask API returned last (any thread)
    egm,                     \* the thread running enterGestureMode
    csSnap,                  \* history: stored mask when the current critical section was entered
    dg,                      \* history: disableGesture(NULL) / enableGesture(NULL) sequence
    alg,                     \* SpecUpd: the inputs drawn and the calls made
    gesture_coords_reported, \* int gesture_coords_reported
    gesture_coordinates_x,   \* u16 gesture_coordinates_x[]
    gesture_coordinates_y,   \* u16 gesture_coordinates_y[]
    dec,                     \* the event handler running readGestureCoords
    rdr                      \* the reader calling getGestureCoords

maskVars == <<gesture_mask, refreshGestureMask, gestureMask_mutex, fw,
              irqEnabled, upd, apiRet, egm, csSnap, dg>>
coordVars == <<gesture_coords_reported, gesture_coordinates_x, gesture_coordinates_y,
               dec, rdr>>
vars == <<maskVars, alg, coordVars>>

(***************************************************************************)
(* The byte loops of updateGestureMask / enableGesture / disableGesture.   *)
(***************************************************************************)
\* mutant: the loop stores the delta byte
OrBytes_overwrite(m, d, size) ==
    [i \in 1..GESTURE_MASK_SIZE |-> IF i <= size THEN d[i] ELSE m[i]]

OrBytes(m, d, size) ==
    [i \in 1..GESTURE_MASK_SIZE |-> IF i <= size THEN U8Or(m[i], d[i]) ELSE m[i]]

\* mutant: the clear loop stops one byte early
ClearBytes_shortLoop(m, d, size) ==
    [i \in 1..GESTURE_MASK_SIZE |->
        IF i < size THEN U8And(U8Xor(m[i], d[i]), m[i]) ELSE m[i]]

ClearBytes(m, d, size) ==
    [i \in 1..GESTURE_MASK_SIZE |->
        IF i <= size THEN U8And(U8Xor(m[i], d[i]), m[i]) ELSE m[i]]

\* disableGesture, mask == NULL: i = 0; pointer = (u8 *)&i; GESTURE_MASK_SIZE bytes
\* are read from there.  Bytes past sizeof(int) are whatever lies next on the stack.
ZeroPointerPayloads ==
    { s \in [1..GESTURE_MASK_SIZE -> {0, 255}] :
        \A i \in 1..GESTURE_MASK_SIZE : i <= SizeofInt => s[i] = 0 }

(***************************************************************************)
(* External primitives.                                                    *)
(***************************************************************************)
mutex_lock(p) ==
    /\ gestureMask_mutex = Free
    /\ gestureMask_mutex' = p

mutex_unlock(p) == gestureMask_mutex' = Free

\* setFeatures(FEAT_SEL_GESTURE, payload, GESTURE_MASK_SIZE) returning r
setFeatures(payload, r) == fw' = [payload |-> payload, res |-> r]

\* fts_disableInterruptNoSync() returning r: the line is masked when it succeeds
fts_disableInterruptNoSync(r) == irqEnabled' = IF r < OK THEN irqEnabled ELSE FALSE

\* fts_enableInterrupt() returning r: the line is unmasked when it succeeds
fts_enableInterrupt(r) == irqEnabled' = IF r < OK THEN irqEnabled ELSE TRUE

UpdIdle == [pc |-> "idle", ptr |-> "-"]
EgmIdle == [pc |-> "idle", reload |-> 0, res |-> OK, dis |-> NotCalled,
            push |-> NotCalled, scan |-> NotCalled, ret |-> NotCalled,
            nPush |-> 0, nScan |-> 0, nEnable |-> 0, nClear |-> 0, missed |-> FALSE]
DgNone == [phase |-> "none", M |-> NULL]

InitMask ==
    /\ gesture_mask = ZeroMask
    /\ refreshGestureMask = 0
    /\ gestureMask_mutex = Free
    /\ fw = [payload |-> NULL, res |-> NotCalled]
    /\ irqEnabled = TRUE
    /\ upd = [p \in Updaters |-> UpdIdle]
    /\ apiRet = NotCalled
    /\ egm = EgmIdle
    /\ csSnap = NULL
    /\ dg = DgNone

CoordIndex == 0 .. GESTURE_MAX_COORDS_PAIRS_REPORT - 1
\* addr, len, val, tr: the last fts_writeReadU8UX call; res: the last return value;
\* ev: the event of the last call; reads: the fts_writeReadU8UX calls it issued
DecIdle == [pc |-> "idle", addr |-> 0, len |-> 0, val |-> <<>>, tr |-> NotCalled,
            res |-> NotCalled, ev |-> [j \in 0..7 |-> 0], reads |-> 0]

InitCoords ==
    /\ gesture_coords_reported = ERROR_OP_NOT_ALLOW
    /\ gesture_coordinates_x = [i \in CoordIndex |-> 0]
    /\ gesture_coordinates_y = [i \in CoordIndex |-> 0]
    /\ dec = DecIdle
    /\ rdr = [got |-> NotCalled, afterFail |-> FALSE]

Init ==
    /\ InitMask
    /\ InitCoords
    /\ alg = <<>>

(***************************************************************************)
(* updateGestureMask(mask, size, en)                                       *)
(***************************************************************************)
\* mutant: the size test is off by one
updateGestureMask_invalid_sizeOff(mask, size, en) ==
    \/ mask = NULL
    \/ size > GESTURE_MASK_SIZE + 1
    \/ en \notin {FEAT_ENABLE, FEAT_DISABLE}

\* the argument checks that return ERROR_OP_NOT_ALLOW before any lock is taken
updateGestureMask_invalid(mask, size, en) ==
    \/ mask = NULL
    \/ size > GESTURE_MASK_SIZE
    \/ en \notin {FEAT_ENABLE, FEAT_DISABLE}

\* mutant: the byte loop runs without mutex_lock
updateGestureMask_enter_noLock(p, mask, size, en) ==
    /\ ~updateGestureMask_invalid(mask, size, en)
    /\ UNCHANGED gestureMask_mutex
    /\ gesture_mask' = IF en = FEAT_ENABLE
                         THEN OrBytes(gesture_mask, mask, size)
                         ELSE ClearBytes(gesture_mask, mask, size)

\* mutex_lock and the byte loop of the branch en selects
updateGestureMask_enter(p, mask, size, en) ==
    /\ ~updateGestureMask_invalid(mask, size, en)
    /\ mutex_lock(p)
    /\ gesture_mask' = IF en = FEAT_ENABLE
                         THEN OrBytes(gesture_mask, mask, size)
                         ELSE ClearBytes(gesture_mask, mask, size)

\* refreshGestureMask = 1; mutex_unlock; return OK
updateGestureMask_leave(p) ==
    /\ refreshGestureMask' = 1
    /\ mutex_unlock(p)

(***************************************************************************)
(* enableGesture(mask, size)                                               *)
(***************************************************************************)
enableGesture_invalid(mask, size) == size > GESTURE_MASK_SIZE

\* mutex_lock; the OR loop when mask != NULL
enableGesture_enter(p, mask, size) ==
    /\ ~enableGesture_invalid(mask, size)
    /\ mutex_lock(p)
    /\ gesture_mask' = IF mask # NULL THEN OrBytes(gesture_mask, mask, size)
                                      ELSE gesture_mask

\* mutant: the function returns without mutex_unlock
enableGesture_send_noUnlock(p, r) ==
    /\ setFeatures(gesture_mask, r)
    /\ UNCHANGED gestureMask_mutex

\* res = setFeatures(FEAT_SEL_GESTURE, gesture_mask, GESTURE_MASK_SIZE); END: mutex_unlock
enableGesture_send(p, r) ==
    /\ setFeatures(gesture_mask, r)
    /\ mutex_unlock(p)

\* mutant: the error of setFeatures is dropped
pushResult_swallow(r) == OK

\* the value enableGesture / disableGesture return for setFeatures' result r
pushResult(r) == IF r < OK THEN r ELSE OK

(***************************************************************************)
(* disableGesture(mask, size)                                              *)
(***************************************************************************)
disableGesture_invalid(mask, size) == size > GESTURE_MASK_SIZE

\* mutant: a NULL mask also zeroes the stored mask
disableGesture_enter_zeroStored(p, mask, size) ==
    /\ size <= GESTURE_MASK_SIZE
    /\ mutex_lock(p)
    /\ gesture_mask' = IF mask # NULL THEN ClearBytes(gesture_mask, mask, size)
                                      ELSE ZeroMask

\* mutex_lock; the clear loop when mask != NULL (pointer = gesture_mask),
\* else i = 0, pointer = (u8 *)&i
disableGesture_enter(p, mask, size) ==
    /\ ~disableGesture_invalid(mask, size)
    /\ mutex_lock(p)
    /\ gesture_mask' = IF mask # NULL THEN ClearBytes(gesture_mask, mask, size)
                                      ELSE gesture_mask

disableGesture_payloads(ptr) ==
    IF ptr = "mask" THEN {gesture_mask} ELSE ZeroPointerPayloads

\* res = setFeatures(FEAT_SEL_GESTURE, pointer, GESTURE_MASK_SIZE); END: mutex_unlock
disableGesture_send(p, ptr, r) ==
    /\ \E payload \in disableGesture_payloads(ptr) : setFeatures(payload, r)
    /\ mutex_unlock(p)

(***************************************************************************)
(* History of the critical sections.                                       *)
(***************************************************************************)
\* kind: "upd", "en", "enNull", "dis", "disNull"
EnterHistory(kind) ==
    /\ csSnap' = IF csSnap = NULL THEN gesture_mask' ELSE csSnap
    /\ dg' = CASE kind = "disNull" -> [phase |-> "dis_cs", M |-> gesture_mask]
               [] kind = "enNull"  -> dg
               [] OTHER            -> DgNone

SendHistory(kind) ==
    /\ csSnap' = NULL
    /\ dg' = CASE kind = "disNull" /\ dg.phase = "dis_cs"  ->
                      [phase |-> "disabled", M |-> dg.M]
               [] kind = "enNull" /\ dg.phase = "disabled" ->
                      [phase |-> "reenabled", M |-> dg.M]
               [] kind = "enNull"                          -> DgNone
               [] OTHER                                    -> dg

(***************************************************************************)
(* The threads calling the mask API.                                       *)
(***************************************************************************)
UpdateReject(p) ==
    /\ upd[p].pc = "idle"
    /\ {a \in UpdateArgs : updateGestureMask_invalid(a[1], a[2], a[3])} # {}
    /\ apiRet' = ERROR_OP_NOT_ALLOW
    /\ UNCHANGED <<gesture_mask, refreshGestureMask, gestureMask_mutex, fw,
                   irqEnabled, upd, egm, csSnap, dg>>
    /\ UNCHANGED <<alg, coordVars>>

UpdateEnter(p) ==
    /\ upd[p].pc = "idle"
    /\ \E a \in UpdateArgs : updateGestureMask_enter(p, a[1], a[2], a[3])
    /\ upd' = [upd EXCEPT ![p] = [pc |-> "upd_cs", ptr |-> "-"]]
    /\ EnterHistory("upd")
    \* history: the mask changed after enterGestureMode's push was sent
    /\ egm' = [egm EXCEPT !.missed = egm.missed \/
                   (egm.pc \in {"clear", "scan", "end"} /\ gesture_mask' # gesture_mask)]
    /\ UNCHANGED <<refreshGestureMask, fw, irqEnabled, apiRet>>
    /\ UNCHANGED <<alg, coordVars>>

UpdateLeave(p) ==
    /\ upd[p].pc = "upd_cs"
    /\ updateGestureMask_leave(p)
    /\ upd' = [upd EXCEPT ![p] = UpdIdle]
    /\ apiRet' = OK
    /\ csSnap' = NULL
    /\ UNCHANGED <<gesture_mask, fw, irqEnabled, egm, dg>>
    /\ UNCHANGED <<alg, coordVars>>

EnableReject(p) ==
    /\ upd[p].pc = "idle"
    /\ {a \in PushArgs : enableGesture_invalid(a[1], a[2])} # {}
    /\ apiRet' = ERROR_OP_NOT_ALLOW
    /\ UNCHANGED <<gesture_mask, refreshGestureMask, gestureMask_mutex, fw,
                   irqEnabled, upd, egm, csSnap, dg>>
    /\ UNCHANGED <<alg, coordVars>>

EnableEnter(p) ==
    /\ upd[p].pc = "idle"
    /\ \E a \in PushArgs :
          /\ enableGesture_enter(p, a[1], a[2])
          /\ upd' = [upd EXCEPT ![p] = [pc |-> "en_cs",
                                        ptr |-> IF a[1] = NULL THEN "null" ELSE "mask"]]
          /\ EnterHistory(IF a[1] = NULL THEN "enNull" ELSE "en")
    /\ UNCHANGED <<refreshGestureMask, fw, irqEnabled, apiRet, egm>>
    /\ UNCHANGED <<alg, coordVars>>

EnableSend(p) ==
    /\ upd[p].pc = "en_cs"
    /\ \E r \in FeatureResults :
          /\ enableGesture_send(p, r)
          /\ upd' = [upd EXCEPT ![p] = UpdIdle]
          /\ apiRet' = pushResult(r)
    /\ SendHistory(IF upd[p].ptr = "null" THEN "enNull" ELSE "en")
    /\ UNCHANGED <<gesture_mask, refreshGestureMask, irqEnabled, egm>>
    /\ UNCHANGED <<alg, coordVars>>

DisableReject(p) ==
    /\ upd[p].pc = "idle"
    /\ {a \in PushArgs : disableGesture_invalid(a[1], a[2])} # {}
    /\ apiRet' = ERROR_OP_NOT_ALLOW
    /\ UNCHANGED <<gesture_mask, refreshGestureMask, gestureMask_mutex, fw,
                   irqEnabled, upd, egm, csSnap, dg>>
    /\ UNCHANGED <<alg, coordVars>>

DisableEnter(p) ==
    /\ upd[p].pc = "idle"
    /\ \E a \in PushArgs :
          /\ disableGesture_enter(p, a[1], a[2])
          /\ upd' = [upd EXCEPT ![p] = [pc |-> "dis_cs",
                                        ptr |-> IF a[1] = NULL THEN "null" ELSE "mask"]]
          /\ EnterHistory(IF a[1] = NULL THEN "disNull" ELSE "dis")
    /\ UNCHANGED <<refreshGestureMask, fw, irqEnabled, apiRet, egm>>
    /\ UNCHANGED <<alg, coordVars>>

DisableSend(p) ==
    /\ upd[p].pc = "dis_cs"
    /\ \E r \in FeatureResults :
          /\ disableGesture_send(p, upd[p].ptr, r)
          /\ upd' = [upd EXCEPT ![p] = UpdIdle]
          /\ apiRet' = pushResult(r)
    /\ SendHistory(IF upd[p].ptr = "null" THEN "disNull" ELSE "dis")
    /\ UNCHANGED <<gesture_mask, refreshGestureMask, irqEnabled, egm>>
    /\ UNCHANGED <<alg, coordVars>>


(***************************************************************************)
(* enterGestureMode(reload), one thread.  fts_disableInterruptNoSync,      *)
(* setScanMode and fts_enableInterrupt are external: each returns OK or an *)
(* error; the interrupt line changes state when the call succeeds.         *)
(***************************************************************************)
\* mutant: only reload decides
enterGestureMode_mustPush_reloadOnly(reload) == reload = 1

\* if (reload == 1 || refreshGestureMask == 1)
enterGestureMode_mustPush(reload) == reload = 1 \/ refreshGestureMask = 1

\* mutant: the tag is not OR-ed in
enterGestureMode_disableFailed_noTag(res) == res

\* return res | ERROR_DISABLE_INTER
enterGestureMode_disableFailed(res) == IntOr(res, ERROR_DISABLE_INTER)

\* mutant: a failed push does not leave the sequence
enterGestureMode_afterPush_noGoto(res) == "clear"

\* mutant: a failed push returns without the re-enable
enterGestureMode_afterPush_return(res) == IF res < OK THEN "done" ELSE "clear"

\* after enableGesture(NULL, 0) returned res: goto END on error
enterGestureMode_afterPush(res) == IF res < OK THEN "end" ELSE "clear"

\* mutant: the re-enable error replaces res
enterGestureMode_final_replace(res, ret) ==
    IF ret < OK THEN IntOr(ret, ERROR_ENABLE_INTER) ELSE res

\* END: res |= ret | ERROR_ENABLE_INTER when fts_enableInterrupt failed
enterGestureMode_final(res, ret) ==
    IF ret < OK THEN IntOr(res, IntOr(ret, ERROR_ENABLE_INTER)) ELSE res

\* mutant: a failed fts_disableInterruptNoSync does not return
EgmStart_noReturn ==
    /\ egm.pc \in {"idle", "done"}
    /\ \E reload \in ReloadArgs, r \in IrqResults :
          /\ fts_disableInterruptNoSync(r)
          /\ egm' = [EgmIdle EXCEPT !.pc = "check", !.reload = reload, !.dis = r,
                                    !.res = r]
    /\ UNCHANGED <<gesture_mask, refreshGestureMask, gestureMask_mutex, fw,
                   upd, apiRet, csSnap, dg>>
    /\ UNCHANGED <<alg, coordVars>>

\* res = fts_disableInterruptNoSync(); if (res < OK) return res | ERROR_DISABLE_INTER
EgmStart ==
    /\ egm.pc \in {"idle", "done"}
    /\ \E reload \in ReloadArgs, r \in IrqResults :
          /\ fts_disableInterruptNoSync(r)
          /\ egm' = IF r < OK
                     THEN [EgmIdle EXCEPT !.pc = "done", !.reload = reload, !.dis = r,
                                          !.res = enterGestureMode_disableFailed(r)]
                     ELSE [EgmIdle EXCEPT !.pc = "check", !.reload = reload, !.dis = r,
                                          !.res = r]
    /\ UNCHANGED <<gesture_mask, refreshGestureMask, gestureMask_mutex, fw,
                   upd, apiRet, csSnap, dg>>
    /\ UNCHANGED <<alg, coordVars>>

EgmCheck ==
    /\ egm.pc = "check"
    /\ egm' = [egm EXCEPT !.pc = IF enterGestureMode_mustPush(egm.reload)
                                   THEN "push_lock" ELSE "scan"]
    /\ UNCHANGED <<gesture_mask, refreshGestureMask, gestureMask_mutex, fw,
                   irqEnabled, upd, apiRet, csSnap, dg>>
    /\ UNCHANGED <<alg, coordVars>>

\* res = enableGesture(NULL, 0): up to its setFeatures call
EgmPushEnter ==
    /\ egm.pc = "push_lock"
    /\ enableGesture_enter("egm", NULL, 0)
    /\ egm' = [egm EXCEPT !.pc = "push_send"]
    /\ EnterHistory("enNull")
    /\ UNCHANGED <<refreshGestureMask, fw, irqEnabled, upd, apiRet>>
    /\ UNCHANGED <<alg, coordVars>>

\* enableGesture(NULL, 0): setFeatures, unlock, return
EgmPushSend ==
    /\ egm.pc = "push_send"
    /\ \E r \in FeatureResults :
          /\ enableGesture_send("egm", r)
          /\ egm' = [egm EXCEPT !.pc = enterGestureMode_afterPush(pushResult(r)),
                                !.res = pushResult(r), !.push = r,
                                !.nPush = egm.nPush + 1]
    /\ SendHistory("enNull")
    /\ UNCHANGED <<gesture_mask, refreshGestureMask, irqEnabled, upd, apiRet>>
    /\ UNCHANGED <<alg, coordVars>>

\* refreshGestureMask = 0
EgmClear ==
    /\ egm.pc = "clear"
    /\ refreshGestureMask' = 0
    /\ egm' = [egm EXCEPT !.pc = "scan", !.nClear = egm.nClear + 1]
    /\ UNCHANGED <<gesture_mask, gestureMask_mutex, fw, irqEnabled, upd, apiRet,
                   csSnap, dg>>
    /\ UNCHANGED <<alg, coordVars>>

\* res = setScanMode(SCAN_MODE_LOW_POWER, 0); on success res = OK
EgmScan ==
    /\ egm.pc = "scan"
    /\ \E r \in ScanResults :
          egm' = [egm EXCEPT !.pc = "end", !.res = pushResult(r), !.scan = r,
                             !.nScan = egm.nScan + 1]
    /\ UNCHANGED <<gesture_mask, refreshGestureMask, gestureMask_mutex, fw,
                   irqEnabled, upd, apiRet, csSnap, dg>>
    /\ UNCHANGED <<alg, coordVars>>

\* END: ret = fts_enableInterrupt(); return res
EgmEnd ==
    /\ egm.pc = "end"
    /\ \E r \in IrqResults :
          /\ egm' = [egm EXCEPT !.pc = "done", !.ret = r,
                                !.res = enterGestureMode_final(egm.res, r),
                                !.nEnable = egm.nEnable + 1]
          /\ fts_enableInterrupt(r)
    /\ UNCHANGED <<gesture_mask, refreshGestureMask, gestureMask_mutex, fw,
                   upd, apiRet, csSnap, dg>>
    /\ UNCHANGED <<alg, coordVars>>

Next ==
    \/ \E p \in Updaters : UpdateReject(p)
    \/ \E p \in Updaters : UpdateEnter(p)
    \/ \E p \in Updaters : UpdateLeave(p)
    \/ \E p \in Updaters : EnableReject(p)
    \/ \E p \in Updaters : EnableEnter(p)
    \/ \E p \in Updaters : EnableSend(p)
    \/ \E p \in Updaters : DisableReject(p)
    \/ \E p \in Updaters : DisableEnter(p)
    \/ \E p \in Updaters : DisableSend(p)
    \/ EgmStart
    \/ EgmCheck
    \/ EgmPushEnter
    \/ EgmPushSend
    \/ EgmClear
    \/ EgmScan
    \/ EgmEnd

Spec == Init /\ [][Next]_vars

\* Scheduling: a thread that can run its next step eventually runs it; a thread
\* waiting in mutex_lock gets the mutex when it is released again and again (the
\* kernel mutex hands the lock over to a starved waiter).
LiveThreads == {"t1"}

Fairness ==
    /\ \A p \in LiveThreads : WF_vars(EnableSend(p))
    /\ \A p \in LiveThreads : WF_vars(DisableSend(p))
    /\ WF_vars(EgmCheck)
    /\ SF_vars(EgmPushEnter)
    /\ WF_vars(EgmPushSend)
    /\ WF_vars(EgmClear)
    /\ WF_vars(EgmScan)
    /\ WF_vars(EgmEnd)

\* one thread calling enableGesture / disableGesture next to enterGestureMode
NextLive ==
    \/ \E p \in LiveThreads : EnableReject(p)
    \/ \E p \in LiveThreads : EnableEnter(p)
    \/ \E p \in LiveThreads : EnableSend(p)
    \/ \E p \in LiveThreads : DisableReject(p)
    \/ \E p \in LiveThreads : DisableEnter(p)
    \/ \E p \in LiveThreads : DisableSend(p)
    \/ EgmStart
    \/ EgmCheck
    \/ EgmPushEnter
    \/ EgmPushSend
    \/ EgmClear
    \/ EgmScan
    \/ EgmEnd

SpecFair == Init /\ [][NextLive]_vars /\ Fairness

(***************************************************************************)
(* Properties.                                                             *)
(***************************************************************************)
InCS(p) == upd[p].pc \in {"upd_cs", "en_cs", "dis_cs"}
Quiescent == /\ \A p \in Updaters : upd[p].pc = "idle"
             /\ egm.pc \in {"idle", "done"}
\* a step taken by the enterGestureMode thread
EgmStep == upd' = upd /\ apiRet' = apiRet /\ egm' # egm
Bit(x, k) == (x \div (2 ^ k)) % 2
\* x = a | b on 32-bit ints, said bit by bit
IsOrOf(x, a, b) ==
    /\ \A k \in 0..30 : Bit(x, k) = IF Bit(a, k) + Bit(b, k) > 0 THEN 1 ELSE 0
    /\ (x < 0) = (a < 0 \/ b < 0)

C2_DisableFailure ==
    [][ (EgmStep /\ egm.pc \in {"idle", "done"} /\ egm'.dis < OK)
          => /\ egm'.pc = "done"
             /\ IsOrOf(egm'.res, egm'.dis, ERROR_DISABLE_INTER)
             /\ egm'.res < OK
             /\ egm'.nPush = 0 /\ egm'.nScan = 0 /\ egm'.nEnable = 0
             /\ gesture_mask' = gesture_mask
             /\ refreshGestureMask' = refreshGestureMask
             /\ fw' = fw
             /\ gestureMask_mutex' = gestureMask_mutex ]_vars

C2_Witness ==
    /\ egm.pc = "done" /\ egm.dis = ERROR_OP_NOT_ALLOW
    /\ egm.res = -2147483130
    /\ egm.nEnable = 0
    /\ gesture_mask # ZeroMask /\ refreshGestureMask = 1

\* C3 as stated: a returned enterGestureMode whose interrupt-disable succeeded
\* leaves interrupts enabled, whatever the re-enable attempt returned.
C3_Original ==
    (egm.pc = "done" /\ egm.dis = OK) => irqEnabled

\* C3 amended: a returned enterGestureMode whose interrupt-disable succeeded has
\* attempted the re-enable exactly once, whatever the mask push and the scan-mode
\* request returned, and interrupts are enabled when that attempt succeeded; a
\* call whose interrupt-disable failed attempted no re-enable.
C3_Amended ==
    egm.pc = "done"
        => /\ egm.dis = OK => (egm.nEnable = 1 /\ (egm.ret = OK => irqEnabled))
           /\ egm.dis < OK => egm.nEnable = 0

C3_Witness ==
    /\ egm.pc = "done" /\ egm.dis = OK /\ egm.push < OK
    /\ egm.nEnable = 1 /\ egm.ret = OK /\ irqEnabled

\* C4 as stated: with no operation in progress, refreshGestureMask is 1 exactly when
\* the stored mask differs from the payload firmware accepted last.
C4_Claim ==
    (Quiescent /\ fw.res = OK)
        => ((refreshGestureMask = 1) <=> (gesture_mask # fw.payload))

\* C5: from the moment a disableGesture(NULL, .) takes the lock, the stored mask
\* stays the mask M it found; the payload it sends is GESTURE_MASK_SIZE zero bytes,
\* whatever setFeatures returns; and an enableGesture(NULL, .) that follows, with
\* no other mask operation between the two, sends exactly M.
C5_DisableNullKeepsMask ==
    /\ dg.phase \in {"dis_cs", "disabled", "reenabled"} => gesture_mask = dg.M
    /\ dg.phase = "disabled" =>
          (Len(fw.payload) = GESTURE_MASK_SIZE
             /\ \A i \in 1..GESTURE_MASK_SIZE : fw.payload[i] = 0)
    /\ dg.phase = "reenabled" => fw.payload = dg.M

C5_Witness ==
    /\ dg.phase = "reenabled" /\ dg.M # ZeroMask /\ fw.payload = dg.M
    /\ fw.res < OK

\* C7: a thread between taking the lock and its unlock owns gestureMask_mutex (so
\* at most one thread is there at a time, enterGestureMode's enableGesture
\* included), and the stored mask stays what it was when that thread had done its
\* merge or clear, up to the end of its setFeatures call.
C7_CriticalSection ==
    /\ \A p \in Updaters : InCS(p) => gestureMask_mutex = p
    /\ egm.pc = "push_send" => gestureMask_mutex = "egm"
    /\ ((\E p \in Updaters : InCS(p)) \/ egm.pc = "push_send")
          => csSnap = gesture_mask

C7_Witness ==
    /\ \E p \in Updaters : upd[p].pc = "en_cs" /\ upd[p].ptr = "mask"
    /\ \E p \in Updaters : upd[p].pc = "idle"
    /\ egm.pc = "push_lock"
    /\ gesture_mask # ZeroMask

\* C8 as stated: once enterGestureMode and the updateGestureMask calls have
\* returned, if an updateGestureMask changed the stored mask after
\* enterGestureMode's push was sent, refreshGestureMask is 1.
C8_Claim ==
    (Quiescent /\ egm.pc = "done" /\ egm.missed) => refreshGestureMask = 1

\* a thread outside enableGesture / disableGesture / updateGestureMask does not
\* own the mutex
LockReleasedAtReturn ==
    /\ \A p \in Updaters : upd[p].pc = "idle" => gestureMask_mutex # p
    /\ egm.pc # "push_send" => gestureMask_mutex # "egm"

StepError ==
    IF egm.push < OK THEN egm.push ELSE IF egm.scan < OK THEN egm.scan ELSE OK

\* C14: a returned enterGestureMode whose interrupt-disable succeeded returns OK
\* exactly when the mask push, the scan-mode request and the re-enable it executed
\* all succeeded; when the re-enable succeeded the result is the error of the
\* push or of the scan-mode request; when the re-enable failed the result is the
\* bitwise OR of that error (or OK), the re-enable error and ERROR_ENABLE_INTER.
C14_ResultMerging ==
    (egm.pc = "done" /\ egm.dis = OK) =>
        /\ (egm.res = OK) <=> (egm.push >= OK /\ egm.scan >= OK /\ egm.ret >= OK)
        /\ egm.ret >= OK => egm.res = StepError
        /\ egm.ret < OK =>
              /\ \A k \in 0..30 :
                    (Bit(egm.res, k) = 1) <=>
                        (Bit(StepError, k) = 1 \/ Bit(egm.ret, k) = 1
                           \/ Bit(ERROR_ENABLE_INTER, k) = 1)
              /\ egm.res < OK
        /\ StepError < OK => egm.res < OK

C14_Witness ==
    /\ egm.pc = "done" /\ egm.dis = OK /\ egm.push = OK
    /\ egm.scan = ERROR_TIMEOUT /\ egm.ret = ERROR_OP_NOT_ALLOW
    /\ egm.res = -2147482873

\* C18: every mask push and every scan-mode request of enterGestureMode is issued
\* after its interrupt-disable succeeded, with the interrupt line masked, and
\* before its re-enable; the push comes before the scan-mode request, each is
\* issued at most once, and the re-enable is the last call before the return.
C18_Fenced ==
    [][ /\ egm'.nPush > egm.nPush =>
              /\ egm.dis = OK /\ ~irqEnabled
              /\ egm.nPush = 0 /\ egm.nScan = 0 /\ egm.nEnable = 0
        /\ egm'.nScan > egm.nScan =>
              /\ egm.dis = OK /\ ~irqEnabled
              /\ egm.nScan = 0 /\ egm.nEnable = 0
        /\ egm'.nEnable > egm.nEnable =>
              /\ egm.dis = OK /\ egm.nEnable = 0 /\ egm'.pc = "done" ]_vars

C18_Witness ==
    /\ egm.pc = "done" /\ egm.dis = OK
    /\ egm.nPush = 1 /\ egm.nScan = 1 /\ egm.nEnable = 1 /\ irqEnabled

\* C19 as stated: a returned enterGestureMode whose interrupt-disable succeeded
\* has cleared refreshGestureMask when it made a mask push, and has not written
\* it when it made none.
C19_Original ==
    (egm.pc = "done" /\ egm.dis = OK) => egm.nClear = egm.nPush

\* C19 amended: after a successful interrupt-disable, enterGestureMode goes to
\* the mask push exactly when reload is 1 or refreshGestureMask is 1 at its test;
\* the push sends the stored mask and leaves it and the flag as they are;
\* refreshGestureMask is written 0 once, after a push that succeeded, and is not
\* written after a push that failed; with no push, no step of enterGestureMode
\* changes the flag, the stored mask or what firmware received.
C19_Amended ==
    /\ [][ EgmStep =>
            /\ egm.pc = "check" =>
                  /\ (egm'.pc = "push_lock")
                        <=> (egm.reload = 1 \/ refreshGestureMask = 1)
                  /\ egm'.pc \in {"push_lock", "scan"}
            /\ egm.pc = "push_send" =>
                  /\ fw'.payload = gesture_mask
                  /\ egm'.nPush = 1
            /\ egm.pc = "clear" => (refreshGestureMask' = 0 /\ egm.push = OK)
            /\ egm.pc # "clear" => refreshGestureMask' = refreshGestureMask
            /\ egm.pc # "push_send" => fw' = fw
            /\ gesture_mask' = gesture_mask ]_vars
    /\ [](egm.pc \in {"scan", "end", "done"} =>
             egm.nClear = (IF egm.nPush = 1 /\ egm.push = OK THEN 1 ELSE 0))

C19_Witness ==
    /\ egm.pc = "done" /\ egm.dis = OK /\ egm.reload = 0
    /\ egm.nPush = 1 /\ egm.push < OK /\ egm.nClear = 0
    /\ refreshGestureMask = 1 /\ gesture_mask # ZeroMask

(***************************************************************************)
(* SpecUpd: one thread, starting from a drawn stored mask and flag, either  *)
(* applies updateGestureMask(D, s, FEAT_ENABLE) and then                   *)
(* updateGestureMask(D, s, FEAT_DISABLE), or calls enableGesture(D, s), or *)
(* makes a call whose arguments are rejected.                              *)
(***************************************************************************)
AlgMaskBytes == {0, 5, 240}
AlgMasks == [1..GESTURE_MASK_SIZE -> AlgMaskBytes]
AlgDeltas == { <<0, 0, 0, 0>>, <<1, 0, 0, 128>>, <<4, 255, 0, 16>>,
               <<255, 255, 255, 255>> }
AlgSizes == 0 .. GESTURE_MASK_SIZE + 1
AlgOps == {"merge", "clear", "pushEnable", "pushDisable"}

InitUpd ==
    /\ InitMask
    /\ InitCoords
    /\ alg = [step |-> "draw", op |-> "-", M |-> ZeroMask, F |-> 0, D |-> NULL, s |-> 0]

\* the stored mask and flag a history of earlier calls left
AlgDraw ==
    /\ alg.step = "draw"
    /\ \E m \in AlgMasks, f \in {0, 1} :
          /\ gesture_mask' = m
          /\ refreshGestureMask' = f
          /\ alg' = [alg EXCEPT !.step = "start", !.M = m, !.F = f]
    /\ UNCHANGED <<gestureMask_mutex, fw, irqEnabled, upd, apiRet,
                   egm, csSnap, dg, coordVars>>

AlgMergeEnter ==
    /\ alg.step = "start"
    /\ \E d \in AlgDeltas \cup {NULL}, s \in AlgSizes :
          /\ updateGestureMask_enter("t1", d, s, FEAT_ENABLE)
          /\ alg' = [alg EXCEPT !.step = "merging", !.op = "merge", !.D = d, !.s = s]
    /\ UNCHANGED <<refreshGestureMask, fw, irqEnabled, upd, apiRet, egm, csSnap, dg,
                   coordVars>>

AlgMergeLeave ==
    /\ alg.step = "merging"
    /\ updateGestureMask_leave("t1")
    /\ alg' = [alg EXCEPT !.step = "merged"]
    /\ apiRet' = OK
    /\ UNCHANGED <<gesture_mask, fw, irqEnabled, upd, egm, csSnap, dg, coordVars>>

AlgClearEnter ==
    /\ alg.step = "merged"
    /\ updateGestureMask_enter("t1", alg.D, alg.s, FEAT_DISABLE)
    /\ alg' = [alg EXCEPT !.step = "clearing", !.op = "clear"]
    /\ UNCHANGED <<refreshGestureMask, fw, irqEnabled, upd, apiRet, egm, csSnap, dg,
                   coordVars>>

AlgClearLeave ==
    /\ alg.step = "clearing"
    /\ updateGestureMask_leave("t1")
    /\ alg' = [alg EXCEPT !.step = "done"]
    /\ apiRet' = OK
    /\ UNCHANGED <<gesture_mask, fw, irqEnabled, upd, egm, csSnap, dg, coordVars>>

\* enableGesture(D, s) up to its setFeatures call
AlgPushEnter ==
    /\ alg.step = "start"
    /\ \E d \in AlgDeltas \cup {NULL}, s \in AlgSizes :
          /\ enableGesture_enter("t1", d, s)
          /\ alg' = [alg EXCEPT !.step = "pushing", !.op = "pushEnable", !.D = d, !.s = s]
    /\ UNCHANGED <<refreshGestureMask, fw, irqEnabled, upd, apiRet, egm, csSnap, dg,
                   coordVars>>

\* enableGesture: setFeatures, unlock, return
AlgPushSend ==
    /\ alg.step = "pushing"
    /\ \E r \in FeatureResults :
          /\ enableGesture_send("t1", r)
          /\ apiRet' = pushResult(r)
    /\ alg' = [alg EXCEPT !.step = "pushed"]
    /\ UNCHANGED <<gesture_mask, refreshGestureMask, irqEnabled, upd, egm, csSnap, dg,
                   coordVars>>

\* the argument checks of the call op makes
AlgInvalid(op, d, s) ==
    CASE op = "merge"       -> updateGestureMask_invalid(d, s, FEAT_ENABLE)
      [] op = "clear"       -> updateGestureMask_invalid(d, s, FEAT_DISABLE)
      [] op = "pushEnable"  -> enableGesture_invalid(d, s)
      [] op = "pushDisable" -> disableGesture_invalid(d, s)

\* a call whose arguments fail the checks: return ERROR_OP_NOT_ALLOW
AlgReject ==
    /\ alg.step = "start"
    /\ \E op \in AlgOps, d \in AlgDeltas \cup {NULL}, s \in AlgSizes :
          /\ AlgInvalid(op, d, s)
          /\ alg' = [alg EXCEPT !.step = "rejected", !.op = op, !.D = d, !.s = s]
    /\ apiRet' = ERROR_OP_NOT_ALLOW
    /\ UNCHANGED <<gesture_mask, refreshGestureMask, gestureMask_mutex, fw, irqEnabled,
                   upd, egm, csSnap, dg, coordVars>>

NextUpd ==
    \/ AlgDraw
    \/ AlgMergeEnter
    \/ AlgMergeLeave
    \/ AlgClearEnter
    \/ AlgClearLeave
    \/ AlgPushEnter
    \/ AlgPushSend
    \/ AlgReject

SpecUpd == InitUpd /\ [][NextUpd]_vars

\* C6 as stated: after updateGestureMask(D, s, FEAT_ENABLE) and then
\* updateGestureMask(D, s, FEAT_DISABLE), bytes 0..s-1 of the stored mask are what
\* they were before the first call.
C6_Original ==
    alg.step = "done" => \A i \in 1..alg.s : gesture_mask[i] = alg.M[i]

\* C6 amended: after the two calls, each of bytes 0..s-1 of the stored mask is
\* its value before the first call with every bit of D's byte cleared (M[i] AND
\* NOT D[i]); it is the value before the first call exactly when that value and
\* D's byte share no set bit.
C6_Amended ==
    alg.step = "done" =>
        \A i \in 1..alg.s :
            /\ \A k \in 0..7 :
                  Bit(gesture_mask[i], k) = Bit(alg.M[i], k) * (1 - Bit(alg.D[i], k))
            /\ (gesture_mask[i] = alg.M[i])
                  <=> (\A k \in 0..7 : Bit(alg.M[i], k) * Bit(alg.D[i], k) = 0)

C6_Witness ==
    /\ alg.step = "done" /\ alg.s = 2
    /\ alg.M[1] = 5 /\ alg.D[1] = 4 /\ gesture_mask[1] = 1
    /\ alg.M[2] = 0 /\ alg.D[2] = 255 /\ gesture_mask[2] = 0
    /\ gesture_mask[4] = alg.M[4]

\* mask is M with D OR-ed into bytes 0..s-1 (M itself when D is absent), bit by bit
IsMerged(mask, M, D, s) ==
    \A i \in 1..GESTURE_MASK_SIZE : \A k \in 0..7 :
        (Bit(mask[i], k) = 1) <=>
            (Bit(M[i], k) = 1 \/ (D # NULL /\ i <= s /\ Bit(D[i], k) = 1))

\* C15: from the merge of updateGestureMask(D, s, FEAT_ENABLE) or of
\* enableGesture(D, s) on, whatever setFeatures returns, every bit set in the
\* stored mask before the call is still set, bytes 0..s-1 are M[i] | D[i] and the
\* bytes from s on are unchanged.
C15_Monotonic ==
    alg.step \in {"merging", "merged", "pushing", "pushed"} =>
        /\ \A i \in 1..GESTURE_MASK_SIZE : \A k \in 0..7 :
               Bit(alg.M[i], k) = 1 => Bit(gesture_mask[i], k) = 1
        /\ IsMerged(gesture_mask, alg.M, alg.D, alg.s)
        /\ \A i \in 1..GESTURE_MASK_SIZE : i > alg.s => gesture_mask[i] = alg.M[i]

C15_Witness ==
    /\ alg.step = "pushed" /\ fw.res < OK
    /\ alg.D = <<4, 255, 0, 16>> /\ alg.s = 2
    /\ alg.M = <<5, 240, 5, 240>> /\ gesture_mask = <<5, 255, 5, 240>>

\* the arguments C16 names as rejected
ClaimedInvalid ==
    \/ alg.op \in {"merge", "clear"} /\ (alg.D = NULL \/ alg.s > GESTURE_MASK_SIZE)
    \/ alg.op \in {"pushEnable", "pushDisable"} /\ alg.s > GESTURE_MASK_SIZE

\* C16: a call with an absent delta (updateGestureMask) or a size above
\* GESTURE_MASK_SIZE (all four) returns an error with the stored mask, the flag,
\* the lock and the firmware untouched, and no call holding or having held the
\* lock has such arguments; updateGestureMask with a delta and size 0 returns OK
\* and leaves the stored mask as it was.
C16_RejectedArgs ==
    /\ alg.step = "rejected" =>
          /\ ClaimedInvalid
          /\ apiRet < OK
          /\ gesture_mask = alg.M /\ refreshGestureMask = alg.F
          /\ gestureMask_mutex = Free
          /\ fw.res = NotCalled /\ fw.payload = NULL
    /\ alg.step \notin {"draw", "start", "rejected"} => ~ClaimedInvalid
    /\ gestureMask_mutex # Free => ~ClaimedInvalid
    /\ (alg.step \in {"merged", "done"} /\ alg.s = 0) =>
          (alg.D # NULL /\ apiRet = OK /\ gesture_mask = alg.M)

C16_Witness ==
    /\ alg.step = "rejected" /\ alg.op = "pushDisable"
    /\ alg.D # NULL /\ alg.s = GESTURE_MASK_SIZE + 1
    /\ apiRet = ERROR_OP_NOT_ALLOW
    /\ alg.M # ZeroMask /\ gesture_mask = alg.M /\ refreshGestureMask = 1

\* C20: enableGesture(D, s) with s <= GESTURE_MASK_SIZE sends setFeatures all
\* GESTURE_MASK_SIZE bytes of the stored mask after the merge (M itself when D is
\* absent); it returns the error of setFeatures when that failed and OK
\* otherwise; the merged mask stays stored on both paths and refreshGestureMask
\* is what it was before the call.
C20_PushEnable ==
    /\ alg.step = "pushing" => refreshGestureMask = alg.F
    /\ alg.step = "pushed" =>
          /\ Len(fw.payload) = GESTURE_MASK_SIZE
          /\ fw.payload = gesture_mask
          /\ IsMerged(fw.payload, alg.M, alg.D, alg.s)
          /\ apiRet = (IF fw.res < OK THEN fw.res ELSE OK)
          /\ refreshGestureMask = alg.F
          /\ gestureMask_mutex = Free

C20_Witness ==
    /\ alg.step = "pushed" /\ fw.res = ERROR_BUS_W /\ apiRet = ERROR_BUS_W
    /\ alg.D = <<1, 0, 0, 128>> /\ alg.s = 1
    /\ alg.M = <<240, 0, 0, 5>> /\ fw.payload = <<241, 0, 0, 5>>
    /\ alg.F = 1 /\ refreshGestureMask = 1

(***************************************************************************)
(* SpecCoords: the event handler calls readGestureCoords(event), one call  *)
(* at a time; a reader calls getGestureCoords at any moment.               *)
(***************************************************************************)
ERROR_BUS_WR == ERROR_OP_NOT_ALLOW - 2
ReadResults == {OK, ERROR_BUS_WR}        \* fts_writeReadU8UX
\* event[5] as the firmware may report it
EventCounts == {0, 1, GESTURE_MAX_COORDS_PAIRS_REPORT,
                GESTURE_MAX_COORDS_PAIRS_REPORT + 5, 255}
\* the events handed to readGestureCoords, bytes 0..7
Event(id, type, lo, hi, c) ==
    [j \in 0..7 |-> CASE j = 0 -> id [] j = 1 -> type [] j = 3 -> lo
                       [] j = 4 -> hi [] j = 5 -> c [] OTHER -> 0]
Events ==
    { Event(EVT_ID_USER_REPORT, EVT_TYPE_USER_GESTURE, 52, hi, c) :
        hi \in {0, 18}, c \in EventCounts }
    \cup { Event(EVT_ID_USER_REPORT - 1, EVT_TYPE_USER_GESTURE, 52, 18, 1),
           Event(EVT_ID_USER_REPORT, EVT_TYPE_USER_GESTURE - 1, 52, 18, 1),
           Event(EVT_ID_USER_REPORT - 1, EVT_TYPE_USER_GESTURE - 1, 52, 18, 1) }
\* frame buffer contents the transport may deliver, byte k of the read
FramePatterns == {"example", "ramp"}
FrameByte(pat, k) ==
    CASE pat = "example" -> <<188, 10, 239, 13>>[(k % 4) + 1]
      [] pat = "ramp"    -> (k * 37 + 90) % 256

\* mutant: only the event id is tested
readGestureCoords_validHeader_idOnly(event) == event[0] = EVT_ID_USER_REPORT

\* event[0] == EVT_ID_USER_REPORT && event[1] == EVT_TYPE_USER_GESTURE
readGestureCoords_validHeader(event) ==
    event[0] = EVT_ID_USER_REPORT /\ event[1] = EVT_TYPE_USER_GESTURE

\* address = (event[4] << 8) | event[3]
readGestureCoords_address(event) == BitOp("or", event[4] * 256, event[3], 16)

\* mutant: the reported count is used as it is
readGestureCoords_clamp_none(count) == count

\* the clamp of gesture_coords_reported
readGestureCoords_clamp(count) ==
    IF count > GESTURE_MAX_COORDS_PAIRS_REPORT
    THEN GESTURE_MAX_COORDS_PAIRS_REPORT ELSE count

\* the length argument of fts_writeReadU8UX
readGestureCoords_readLen(count) == count * 2 * 2

\* mutant: the stored count is left as it is
readGestureCoords_onReadError_keep(count) == count

\* gesture_coords_reported after fts_writeReadU8UX failed
readGestureCoords_onReadError(count) == ERROR_OP_NOT_ALLOW

\* mutant: the high byte is not masked to its low nibble
readGestureCoords_coord_noNibble(lo, hi) ==
    BitOp("or", BitOp("and", hi, 255, 16) * 256, BitOp("and", lo, 255, 16), 16)

\* (((u16) hi) & 0x0F) << 8 | (((u16) lo) & 0xFF)
readGestureCoords_coord(lo, hi) ==
    BitOp("or", BitOp("and", hi, 15, 16) * 256, BitOp("and", lo, 255, 16), 16)

readGestureCoords_x(val, n) ==
    [i \in CoordIndex |->
        IF i < n THEN readGestureCoords_coord(val[i * 2], val[i * 2 + 1])
        ELSE gesture_coordinates_x[i]]

readGestureCoords_y(val, n) ==
    [i \in CoordIndex |->
        IF i < n THEN readGestureCoords_coord(val[n * 2 + i * 2], val[n * 2 + i * 2 + 1])
        ELSE gesture_coordinates_y[i]]

\* the header check; gesture_coords_reported = event[5]
DecStart ==
    /\ dec.pc = "idle"
    /\ \E event \in Events :
          IF readGestureCoords_validHeader(event)
          THEN /\ gesture_coords_reported' = event[5]
               /\ dec' = [dec EXCEPT !.pc = "clamp", !.val = <<>>, !.len = 0,
                                     !.addr = readGestureCoords_address(event),
                                     !.tr = NotCalled, !.res = NotCalled,
                                     !.ev = event, !.reads = 0]
          ELSE /\ dec' = [dec EXCEPT !.res = ERROR_OP_NOT_ALLOW,
                                     !.ev = event, !.reads = 0]
               /\ UNCHANGED gesture_coords_reported
    /\ UNCHANGED <<gesture_coordinates_x, gesture_coordinates_y, rdr, maskVars, alg>>

\* if (gesture_coords_reported > GESTURE_MAX_COORDS_PAIRS_REPORT) ...
DecClamp ==
    /\ dec.pc = "clamp"
    /\ gesture_coords_reported' = readGestureCoords_clamp(gesture_coords_reported)
    /\ dec' = [dec EXCEPT !.pc = "read"]
    /\ UNCHANGED <<gesture_coordinates_x, gesture_coordinates_y, rdr, maskVars, alg>>

\* res = fts_writeReadU8UX(...): it failed
DecReadFail ==
    /\ dec.pc = "read"
    /\ \E r \in ReadResults \ {OK} :
          dec' = [dec EXCEPT !.pc = "idle", !.tr = r, !.res = r,
                             !.reads = dec.reads + 1,
                             !.len = readGestureCoords_readLen(gesture_coords_reported)]
    /\ gesture_coords_reported' = readGestureCoords_onReadError(gesture_coords_reported)
    /\ UNCHANGED <<gesture_coordinates_x, gesture_coordinates_y, rdr, maskVars, alg>>

\* res = fts_writeReadU8UX(...): it filled val; the loop over the pairs; return OK
DecReadStore ==
    /\ dec.pc = "read"
    /\ \E pat \in FramePatterns :
          LET len == readGestureCoords_readLen(gesture_coords_reported)
              val == [k \in 0 .. len - 1 |-> FrameByte(pat, k)]
          IN  /\ dec' = [dec EXCEPT !.pc = "idle", !.tr = OK, !.res = OK,
                                    !.reads = dec.reads + 1,
                                    !.len = len, !.val = val]
              /\ gesture_coordinates_x' = readGestureCoords_x(val, gesture_coords_reported)
              /\ gesture_coordinates_y' = readGestureCoords_y(val, gesture_coords_reported)
    /\ UNCHANGED <<gesture_coords_reported, rdr, maskVars, alg>>

\* getGestureCoords: return gesture_coords_reported
RdrGet ==
    /\ rdr' = [got |-> gesture_coords_reported,
               afterFail |-> (dec.pc = "idle" /\ dec.tr < OK)]
    /\ UNCHANGED <<gesture_coords_reported, gesture_coordinates_x,
                   gesture_coordinates_y, dec, maskVars, alg>>

NextCoords ==
    \/ DecStart
    \/ DecClamp
    \/ DecReadFail
    \/ DecReadStore
    \/ RdrGet

SpecCoords == Init /\ [][NextCoords]_vars

\* C9 as stated: in every state the stored count is ERROR_OP_NOT_ALLOW or lies in
\* 0..GESTURE_MAX_COORDS_PAIRS_REPORT, and getGestureCoords never returns a count
\* above GESTURE_MAX_COORDS_PAIRS_REPORT.
C9_Claim ==
    /\ \/ gesture_coords_reported = ERROR_OP_NOT_ALLOW
       \/ gesture_coords_reported \in 0..GESTURE_MAX_COORDS_PAIRS_REPORT
    /\ rdr.got # NotCalled => rdr.got <= GESTURE_MAX_COORDS_PAIRS_REPORT

RdrSentinelAfterFail ==
    /\ (dec.pc = "idle" /\ dec.tr < OK)
          => gesture_coords_reported = ERROR_OP_NOT_ALLOW
    /\ rdr.afterFail => rdr.got = ERROR_OP_NOT_ALLOW

\* C10: the step in which the frame-buffer read of a valid report fails returns
\* the transport's error, makes the stored count ERROR_OP_NOT_ALLOW and writes
\* neither coordinate array; from then until a readGestureCoords with a valid
\* header starts, the stored count is ERROR_OP_NOT_ALLOW and that is what every
\* getGestureCoords returns.
C10_FailedDecode ==
    /\ [][ (dec.pc = "read" /\ dec'.pc = "idle" /\ dec'.tr < OK)
             => /\ dec'.res = dec'.tr
                /\ gesture_coords_reported' = ERROR_OP_NOT_ALLOW
                /\ gesture_coordinates_x' = gesture_coordinates_x
                /\ gesture_coordinates_y' = gesture_coordinates_y ]_vars
    /\ []RdrSentinelAfterFail

C10_Witness ==
    /\ dec.pc = "idle" /\ dec.tr < OK /\ dec.res = ERROR_OP_NOT_ALLOW
    /\ rdr.afterFail /\ rdr.got = ERROR_OP_NOT_ALLOW
    /\ gesture_coordinates_x[0] = 2748

\* the header of the event of the last readGestureCoords call is the one decoded
LastHeaderValid ==
    dec.ev[0] = EVT_ID_USER_REPORT /\ dec.ev[1] = EVT_TYPE_USER_GESTURE
Min(a, b) == IF a < b THEN a ELSE b

\* C11: a readGestureCoords call on an event whose byte 0 is not
\* EVT_ID_USER_REPORT or whose byte 1 is not EVT_TYPE_USER_GESTURE returns an
\* error in its first step, issues no fts_writeReadU8UX, and leaves the stored
\* count and both coordinate arrays as they were.
C11_InvalidHeader ==
    [][ (dec.pc = "idle" /\ dec' # dec
           /\ (dec'.ev[0] # EVT_ID_USER_REPORT \/ dec'.ev[1] # EVT_TYPE_USER_GESTURE))
          => /\ dec'.pc = "idle"
             /\ dec'.res < OK
             /\ dec'.reads = 0
             /\ dec'.tr = dec.tr /\ dec'.len = dec.len /\ dec'.val = dec.val
             /\ gesture_coords_reported' = gesture_coords_reported
             /\ gesture_coordinates_x' = gesture_coordinates_x
             /\ gesture_coordinates_y' = gesture_coordinates_y ]_vars

C11_Witness ==
    /\ dec.pc = "idle" /\ dec.res = ERROR_OP_NOT_ALLOW /\ dec.reads = 0
    /\ dec.ev[0] = EVT_ID_USER_REPORT /\ dec.ev[1] # EVT_TYPE_USER_GESTURE
    /\ dec.tr = OK /\ gesture_coords_reported = 1
    /\ gesture_coordinates_x[0] = 2748 /\ gesture_coordinates_y[0] = 3567

\* C12: a readGestureCoords call on a valid header with reported count c issues
\* no read before its clamp and exactly one fts_writeReadU8UX by its return, at
\* offset event[4] * 256 + event[3] and for min(c, MAX) * 4 bytes; when the read
\* succeeded the call returned OK and the stored count is min(c, MAX).
C12_ClampedRead ==
    LastHeaderValid =>
        LET n == Min(dec.ev[5], GESTURE_MAX_COORDS_PAIRS_REPORT)
        IN  /\ dec.pc \in {"clamp", "read"} => dec.reads = 0
            /\ dec.pc = "idle" =>
                  /\ dec.reads = 1
                  /\ dec.addr = dec.ev[4] * 256 + dec.ev[3]
                  /\ dec.len = n * 4
                  /\ dec.tr = OK =>
                        (dec.res = OK /\ gesture_coords_reported = n
                           /\ DOMAIN dec.val = 0 .. n * 4 - 1)

C12_Witness ==
    /\ dec.pc = "idle" /\ LastHeaderValid
    /\ dec.ev[5] = GESTURE_MAX_COORDS_PAIRS_REPORT + 5
    /\ dec.reads = 1 /\ dec.addr = 4660
    /\ dec.len = GESTURE_MAX_COORDS_PAIRS_REPORT * 4
    /\ dec.tr = OK /\ gesture_coords_reported = GESTURE_MAX_COORDS_PAIRS_REPORT

\* C13: after a readGestureCoords that returned OK with stored count n and read
\* buffer buf, x[i] is buf[2i] plus 256 times the low nibble of buf[2i+1], and
\* y[i] the same from buf[2n+2i] and buf[2n+2i+1], for every i below n; every such
\* value is below 4096.
C13_Decode ==
    (dec.pc = "idle" /\ LastHeaderValid /\ dec.res = OK) =>
        LET n == gesture_coords_reported
            buf == dec.val
        IN  \A i \in 0 .. n - 1 :
               /\ gesture_coordinates_x[i] = (buf[2 * i + 1] % 16) * 256 + buf[2 * i]
               /\ gesture_coordinates_y[i] =
                     (buf[2 * n + 2 * i + 1] % 16) * 256 + buf[2 * n + 2 * i]
               /\ gesture_coordinates_x[i] < 4096
               /\ gesture_coordinates_y[i] < 4096

\* the high bytes 127 and 201 carry a non-zero top nibble
C13_Witness ==
    /\ dec.pc = "idle" /\ LastHeaderValid /\ dec.res = OK
    /\ gesture_coords_reported = 1
    /\ dec.val = [k \in 0..3 |-> <<90, 127, 164, 201>>[k + 1]]
    /\ gesture_coordinates_x[0] = 3930 /\ gesture_coordinates_y[0] = 2468

====
